---- MODULE Spec2Model ----
(***************************************************************************)
(* A model of game-pricing-intel: the durable table writer safe_write_csv  *)
(* and the mart builders' main that calls it (backend/app/analytics), and  *)
(* the cleaners (backend/app/ingestion).                                   *)
(***************************************************************************)
EXTENDS Integers, Sequences, FiniteSets, TLC

\* ------------------------------------------------------------------ bounds
\* Rows of a mart table (its CSV has one header line and MaxRows row lines).
MaxRows == 1
\* The wall clock, in seconds after the first stamp.
MaxClock == 1
\* Independent runs of a mart builder.
NProcs == 2

Procs == 1..NProcs
\* The state of the cleaned input a run is computed from; 0 is the content
\* the destinations hold before any run of the model.
Versions == {1, 2}

\* ------------------------------------------------------------------- paths
\* A file name is its stem, kept as the fragments it was put together from,
\* and its final suffix; all files live in MARTS_DIR.
OUT_SEASON == [stem |-> <<"q1_pricing_by_season">>, suffix |-> ".csv"]
OUT_MONTH == [stem |-> <<"q1_pricing_by_month">>, suffix |-> ".csv"]

\* The destinations main writes, in the order it writes them.
Outs == <<OUT_SEASON, OUT_MONTH>>
OutSet == {Outs[i] : i \in 1..Len(Outs)}

\* Path.with_suffix(suffixes): the final suffix replaced by the given text,
\* which may itself hold several suffixes (".tmp.csv").
WithSuffix(p, suffixes) ==
    [stem |-> p.stem \o SubSeq(suffixes, 1, Len(suffixes) - 1),
     suffix |-> suffixes[Len(suffixes)]]

\* Path.with_name(f"{stem}_{stamp}.csv")
WithName(p, stem, suffix) == [stem |-> stem, suffix |-> suffix]

\* pd.Timestamp.now().strftime("%Y%m%d_%H%M%S"), preceded by the "_" of the
\* f-string, for the seconds of the clock.
Strftime(t) ==
    <<"_20260101_000000", "_20260101_000001", "_20260101_000002",
      "_20260101_000003">>[t + 1]

TmpPath_InPlace(out_path) == out_path

\* tmp = out_path.with_suffix(".tmp.csv")
TmpPath(out_path) == WithSuffix(out_path, <<".tmp", ".csv">>)

\* fallback = out_path.with_name(f"{out_path.stem}_{stamp}.csv")
FallbackPath(out_path, t) ==
    WithName(out_path, out_path.stem \o <<Strftime(t)>>, ".csv")

Fallbacks(out_path) == {FallbackPath(out_path, t) : t \in 0..MaxClock}

AllPaths ==
    OutSet \cup {TmpPath(o) : o \in OutSet}
           \cup UNION {Fallbacks(o) : o \in OutSet}

\* ------------------------------------------------------- tables and files
\* A line of a CSV file.
HeaderLine(name) == [k |-> "hdr", h |-> name, v |-> 0]
RowLine(value) == [k |-> "row", h |-> "", v |-> value]
\* What a position of a file holds when it was never written (a hole).
NulLine == [k |-> "nul", h |-> "", v |-> 0]

\* The mart table main computes for a destination from version ver of the
\* cleaned input: its column header and its rows.
Table(ver, out_path) ==
    [header |-> out_path.stem[1],
     rows |-> [i \in 1..MaxRows |-> 10 * ver + i]]

\* df.to_csv(path, index=False): the header line, then one line per row.
ToCsv(df) ==
    <<HeaderLine(df.header)>> \o [i \in 1..Len(df.rows) |-> RowLine(df.rows[i])]

NoIno == 0
Inodes == 1..(Cardinality(AllPaths) + NProcs)
NoFd == [ino |-> NoIno, pos |-> 0]
\* What reading a path that does not exist gives.
Absent == <<[k |-> "absent", h |-> "", v |-> 0]>>

VARIABLES
    fs,        \* directory: path -> inode, NoIno when the path does not exist
    ino,       \* inode -> the lines of the file
    fd,        \* per run: the open file of to_csv, an inode and a position
    now,       \* the clock, in seconds, when it was last read
    pc,        \* per run: where it is
    ver,       \* per run: the version of the input its tables come from
    k,         \* per run: the index in Outs of the current safe_write_csv
    stamp,     \* per run: the stamp taken in the except branch, -1 if none
    err,       \* per run: the exception that ended it, "" if none
    before,    \* per run: what the destination held when the call began
    replaced,  \* per run: the destinations it replaced
    usedFb,    \* per run: the calls (indices in Outs) that wrote a fallback
    received,  \* per run: the paths safe_write_csv returned to main
    reported,  \* per run: the paths main printed as written
    warnings,  \* the warnings printed, as <<run, destination, fallback>>
    after,     \* per run: per call, what the destination held at return
    seen       \* what a reader of a destination last read

writerVars ==
    <<fs, ino, fd, now, pc, ver, k, stamp, err, before, replaced,
      usedFb, received, reported, warnings, after, seen>>

VARIABLES
    raw,           \* data/games.csv, the raw export
    clean,         \* data/games_clean.csv
    reviewsClean,  \* data/games_reviews_clean.csv
    marts,         \* the names of the q2 mart files build_q2_marts wrote
    last           \* the outcome of the program that ran last

VARIABLES
    mart,          \* data/marts: per mart file, the table it holds
    resp,          \* the last response of the query facade
    cdisk,         \* the lines of games_clean.csv while clean_games writes it
    cpc,           \* where the to_csv of clean_games is: "idle" or "write"
    cseen          \* what a reader of games_clean.csv last read

martVars == <<mart, resp, cdisk, cpc, cseen>>

cleanVars == <<raw, clean, reviewsClean, marts, last, martVars>>

vars == <<writerVars, cleanVars>>

Content(path) == IF fs[path] = NoIno THEN Absent ELSE ino[fs[path]]

CurOut(p) == Outs[k[p]]
DF(p) == Table(ver[p], CurOut(p))

\* The lines of a file after a write of line at position pos (1-based); a
\* write past the end leaves a hole.
WriteAt(lines, pos, line) ==
    [i \in 1..(IF pos > Len(lines) THEN pos ELSE Len(lines)) |->
        IF i = pos THEN line
        ELSE IF i <= Len(lines) THEN lines[i] ELSE NulLine]

\* The inodes with what no path and no open file refers to cleared.
Collect(fs2, fd2, ino2) ==
    [i \in Inodes |->
        IF (\E path \in AllPaths : fs2[path] = i) \/ (\E p \in Procs : fd2[p].ino = i)
        THEN ino2[i] ELSE <<>>]

FreeIno ==
    CHOOSE i \in Inodes :
        /\ \A path \in AllPaths : fs[path] # i
        /\ \A p \in Procs : fd[p].ino # i
        /\ \A j \in Inodes :
             ((\A path \in AllPaths : fs[path] # j) /\ (\A p \in Procs : fd[p].ino # j))
                => i <= j

Terminal == {"done", "failed"}

\* ------------------------------------------------------------ initial state
OldFiles(present) ==
    [path \in AllPaths |->
        IF path \in present
        THEN CHOOSE i \in 1..Len(Outs) : Outs[i] = path
        ELSE NoIno]

\* The destinations in present hold the tables of an earlier build.
WriterStart(present) ==
    /\ fs = OldFiles(present)
    /\ ino = [i \in Inodes |->
                IF i \in 1..Len(Outs) /\ Outs[i] \in present
                THEN ToCsv(Table(0, Outs[i])) ELSE <<>>]
    /\ fd = [p \in Procs |-> NoFd]
    /\ now = 0
    /\ pc = [p \in Procs |-> "idle"]
    /\ ver = [p \in Procs |-> 0]
    /\ k = [p \in Procs |-> 1]
    /\ stamp = [p \in Procs |-> -1]
    /\ err = [p \in Procs |-> ""]
    /\ before = [p \in Procs |-> Absent]
    /\ replaced = [p \in Procs |-> {}]
    /\ usedFb = [p \in Procs |-> {}]
    /\ received = [p \in Procs |-> {}]
    /\ reported = [p \in Procs |-> {}]
    /\ warnings = {}
    /\ after = [p \in Procs |-> <<>>]
    /\ seen = <<>>

WriterInit == \E present \in SUBSET OutSet : WriterStart(present)

\* ------------------------------------------------------------------ actions
\* main up to its first safe_write_csv: the tables are computed in memory
\* from the cleaned input, then the first call begins.
Begin(p) ==
    /\ pc[p] = "idle"
    /\ \E v \in Versions : ver' = [ver EXCEPT ![p] = v]
    /\ pc' = [pc EXCEPT ![p] = "open"]
    /\ before' = [before EXCEPT ![p] = Content(Outs[1])]
    /\ UNCHANGED <<fs, ino, fd, now, k, stamp, err, replaced, usedFb,
                   received, reported, warnings, after, seen>>
    /\ UNCHANGED cleanVars

\* One run at a time, in the order of the run numbers.
StartSeq(p) ==
    /\ \A q \in Procs : q < p => pc[q] \in Terminal
    /\ Begin(p)

\* Independent runs: a run starts whatever the others are doing.
StartConc(p) ==
    /\ pc[p] = "idle"
    /\ Begin(p)

\* df.to_csv(tmp, index=False), its open(tmp, "w"): the file is created, or
\* truncated when the path exists.
OpenTmp(p) ==
    /\ pc[p] = "open"
    /\ LET tmp == TmpPath(CurOut(p))
           i == IF fs[tmp] = NoIno THEN FreeIno ELSE fs[tmp]
       IN /\ fs' = [fs EXCEPT ![tmp] = i]
          /\ ino' = [ino EXCEPT ![i] = <<>>]
          /\ fd' = [fd EXCEPT ![p] = [ino |-> i, pos |-> 0]]
    /\ pc' = [pc EXCEPT ![p] = "write"]
    /\ UNCHANGED <<now, ver, k, stamp, err, before, replaced, usedFb,
                   received, reported, warnings, after, seen>>
    /\ UNCHANGED cleanVars

\* df.to_csv(tmp, index=False), one line written at the position of the open
\* file; the file is closed after the last line.
WriteLine(p) ==
    /\ pc[p] = "write"
    /\ LET lines == ToCsv(DF(p))
           pos == fd[p].pos + 1
           final == pos = Len(lines)
           fd2 == [fd EXCEPT ![p] = IF final THEN NoFd ELSE [ino |-> fd[p].ino, pos |-> pos]]
           ino2 == [ino EXCEPT ![fd[p].ino] = WriteAt(ino[fd[p].ino], pos, lines[pos])]
       IN /\ fd' = fd2
          /\ ino' = Collect(fs, fd2, ino2)
          /\ pc' = [pc EXCEPT ![p] = IF final THEN "replace" ELSE "write"]
    /\ UNCHANGED <<fs, now, ver, k, stamp, err, before, replaced, usedFb,
                   received, reported, warnings, after, seen>>
    /\ UNCHANGED cleanVars

Replace_KeepsTmp(p) ==
    /\ pc[p] = "replace"
    /\ LET out == CurOut(p)
           tmp == TmpPath(out)
           fs2 == [fs EXCEPT ![out] = fs[tmp]]
       IN /\ fs[tmp] # NoIno
          /\ fs' = fs2
          /\ ino' = Collect(fs2, fd, ino)
          /\ replaced' = [replaced EXCEPT ![p] = @ \cup {out}]
    /\ pc' = [pc EXCEPT ![p] = "return"]
    /\ UNCHANGED <<fd, now, ver, k, stamp, err, before, usedFb,
                   received, reported, warnings, after, seen>>
    /\ UNCHANGED cleanVars

\* tmp.replace(out_path): the rename, atomic.
Replace(p) ==
    /\ pc[p] = "replace"
    /\ LET out == CurOut(p)
           tmp == TmpPath(out)
           fs2 == [[fs EXCEPT ![out] = fs[tmp]] EXCEPT ![tmp] = NoIno]
       IN /\ fs[tmp] # NoIno
          /\ fs' = fs2
          /\ ino' = Collect(fs2, fd, ino)
          /\ replaced' = [replaced EXCEPT ![p] = @ \cup {out}]
    /\ pc' = [pc EXCEPT ![p] = "return"]
    /\ UNCHANGED <<fd, now, ver, k, stamp, err, before, usedFb,
                   received, reported, warnings, after, seen>>
    /\ UNCHANGED cleanVars

\* tmp.replace(out_path) raises PermissionError, caught: an external reader
\* (a BI tool) holds the destination, a file that exists, open. The clock is
\* read for the stamp; it never runs backwards.
ReplaceLocked(p) ==
    /\ pc[p] = "replace"
    /\ fs[TmpPath(CurOut(p))] # NoIno
    /\ fs[CurOut(p)] # NoIno
    /\ \E t \in now..MaxClock :
         /\ now' = t
         /\ stamp' = [stamp EXCEPT ![p] = t]
    /\ pc' = [pc EXCEPT ![p] = "fallback"]
    /\ UNCHANGED <<fs, ino, fd, ver, k, err, before, replaced,
                   usedFb, received, reported, warnings, after, seen>>
    /\ UNCHANGED cleanVars

\* tmp.replace(out_path) raises FileNotFoundError, which nothing catches.
ReplaceMissing(p) ==
    /\ pc[p] = "replace"
    /\ fs[TmpPath(CurOut(p))] = NoIno
    /\ err' = [err EXCEPT ![p] = "FileNotFoundError"]
    /\ pc' = [pc EXCEPT ![p] = "failed"]
    /\ UNCHANGED <<fs, ino, fd, now, ver, k, stamp, before, replaced,
                   usedFb, received, reported, warnings, after, seen>>
    /\ UNCHANGED cleanVars

FallbackReplace_Dropped(p) ==
    /\ pc[p] = "fallback"
    /\ LET fs2 == [fs EXCEPT ![TmpPath(CurOut(p))] = NoIno]
       IN /\ fs' = fs2
          /\ ino' = Collect(fs2, fd, ino)
    /\ usedFb' = [usedFb EXCEPT ![p] = @ \cup {k[p]}]
    /\ pc' = [pc EXCEPT ![p] = "return"]
    /\ UNCHANGED <<fd, now, ver, k, stamp, err, before, replaced,
                   received, reported, warnings, after, seen>>
    /\ UNCHANGED cleanVars

\* The except branch: tmp.replace(fallback) and the printed warning.
FallbackReplace(p) ==
    /\ pc[p] = "fallback"
    /\ LET out == CurOut(p)
           tmp == TmpPath(out)
           fallback == FallbackPath(out, stamp[p])
           fs2 == [[fs EXCEPT ![fallback] = fs[tmp]] EXCEPT ![tmp] = NoIno]
       IN /\ fs' = fs2
          /\ ino' = Collect(fs2, fd, ino)
          /\ warnings' = warnings \cup {<<p, out, fallback>>}
    /\ usedFb' = [usedFb EXCEPT ![p] = @ \cup {k[p]}]
    /\ pc' = [pc EXCEPT ![p] = "return"]
    /\ UNCHANGED <<fd, now, ver, k, stamp, err, before, replaced,
                   received, reported, after, seen>>
    /\ UNCHANGED cleanVars

\* safe_write_csv returns None: main learns no path from it.
Returned(p) == {}

\* safe_write_csv returns and main calls it for the next destination.
NextCall(p) ==
    /\ pc[p] = "return"
    /\ k[p] < Len(Outs)
    /\ received' = [received EXCEPT ![p] = @ \cup Returned(p)]
    /\ after' = [after EXCEPT ![p] = Append(@, Content(CurOut(p)))]
    /\ k' = [k EXCEPT ![p] = @ + 1]
    /\ before' = [before EXCEPT ![p] = Content(Outs[k[p] + 1])]
    /\ pc' = [pc EXCEPT ![p] = "open"]
    /\ UNCHANGED <<fs, ino, fd, now, ver, stamp, err, replaced, usedFb,
                   reported, warnings, seen>>
    /\ UNCHANGED cleanVars

\* The last safe_write_csv returns and main prints the paths it wrote.
Report(p) ==
    /\ pc[p] = "return"
    /\ k[p] = Len(Outs)
    /\ received' = [received EXCEPT ![p] = @ \cup Returned(p)]
    /\ after' = [after EXCEPT ![p] = Append(@, Content(CurOut(p)))]
    /\ reported' = [reported EXCEPT ![p] = OutSet]
    /\ pc' = [pc EXCEPT ![p] = "done"]
    /\ UNCHANGED <<fs, ino, fd, now, ver, k, stamp, err, before,
                   replaced, usedFb, warnings, seen>>
    /\ UNCHANGED cleanVars

\* The run ends inside safe_write_csv: an OSError of to_csv or of a replace,
\* which nothing catches, or the process is interrupted. Its open file is
\* closed; the files stay as they are.
Fail(p) ==
    /\ pc[p] \in {"open", "write", "replace", "fallback"}
    /\ err' = [err EXCEPT ![p] = "OSError"]
    /\ pc' = [pc EXCEPT ![p] = "failed"]
    /\ LET fd2 == [fd EXCEPT ![p] = NoFd]
       IN /\ fd' = fd2
          /\ ino' = Collect(fs, fd2, ino)
    /\ UNCHANGED <<fs, now, ver, k, stamp, before, replaced, usedFb,
                   received, reported, warnings, after, seen>>
    /\ UNCHANGED cleanVars

\* A reader opens a destination and reads it whole.
Read(out) ==
    /\ fs[out] # NoIno
    /\ seen' = <<out, ino[fs[out]]>>
    /\ UNCHANGED <<fs, ino, fd, now, pc, ver, k, stamp, err, before,
                   replaced, usedFb, received, reported, warnings, after>>
    /\ UNCHANGED cleanVars

\* ------------------------------------------------------------ the cleaners
\* Rows of the raw export.
MaxRawRows == 1

\* A string is the sequence of its pieces: characters, or whole words where
\* no operation looks inside them.
S_Dollar == <<"$">>
S_Zero == <<"0">>
S_Free == <<"F", "r", "e", "e">>
S_FreeToPlay == <<"F", "r", "e", "e", " ", "t", "o", " ", "P", "l", "a", "y">>
S_nan == <<"n", "a", "n">>

\* A cell of a DataFrame: a string, a number n/d, or NaN/NA. src is the raw
\* column the value was read from ("" for a computed value).
StrCell(src, s) == [src |-> src, t |-> "str", s |-> s, n |-> 0, d |-> 1]
NumCell(src, n, d) == [src |-> src, t |-> "num", s |-> <<>>, n |-> n, d |-> d]
NaNCell(src) == [src |-> src, t |-> "nan", s |-> <<>>, n |-> 0, d |-> 1]

\* Series.astype(str) of a raw cell: NaN becomes the text "nan".
AsStr(cell) == IF cell.t = "nan" THEN S_nan ELSE cell.s

IsPrefixAt(s, i, pat) ==
    /\ i + Len(pat) - 1 <= Len(s)
    /\ \A j \in 1..Len(pat) : s[i + j - 1] = pat[j]

\* str.replace(pat, rep, regex=False): every occurrence, left to right.
RECURSIVE ReplaceFrom(_, _, _, _)
ReplaceFrom(s, i, pat, rep) ==
    IF i > Len(s) THEN <<>>
    ELSE IF IsPrefixAt(s, i, pat) THEN rep \o ReplaceFrom(s, i + Len(pat), pat, rep)
    ELSE <<s[i]>> \o ReplaceFrom(s, i + 1, pat, rep)

ReplaceAll(s, pat, rep) == ReplaceFrom(s, 1, pat, rep)

\* str.strip(): leading and trailing whitespace removed.
RECURSIVE StripLeft(_)
StripLeft(s) == IF s # <<>> /\ s[1] = " " THEN StripLeft(Tail(s)) ELSE s
RECURSIVE StripRight(_)
StripRight(s) ==
    IF s # <<>> /\ s[Len(s)] = " " THEN StripRight(SubSeq(s, 1, Len(s) - 1)) ELSE s
Strip(s) == StripRight(StripLeft(s))

\* str.replace(r"\s+", " ", regex=True): a run of whitespace becomes one space.
RECURSIVE CollapseWs(_)
CollapseWs(s) ==
    IF Len(s) < 2 THEN s
    ELSE IF s[1] = " " /\ s[2] = " " THEN CollapseWs(Tail(s))
    ELSE <<s[1]>> \o CollapseWs(Tail(s))

DigitOf ==
    ("0" :> 0) @@ ("1" :> 1) @@ ("2" :> 2) @@ ("3" :> 3) @@ ("4" :> 4) @@
    ("5" :> 5) @@ ("6" :> 6) @@ ("7" :> 7) @@ ("8" :> 8) @@ ("9" :> 9)

AllDigits(s) == \A i \in 1..Len(s) : s[i] \in DOMAIN DigitOf

RECURSIVE DigitsValue(_)
DigitsValue(s) ==
    IF s = <<>> THEN 0
    ELSE 10 * DigitsValue(SubSeq(s, 1, Len(s) - 1)) + DigitOf[s[Len(s)]]

\* pd.to_numeric(text, errors="coerce") on a decimal literal with at most two
\* decimals: the value in hundredths, or NaN for anything else.
ToNumeric(s) ==
    LET signed == s # <<>> /\ s[1] \in {"-", "+"}
        body == IF signed THEN Tail(s) ELSE s
        dots == {i \in 1..Len(body) : body[i] = "."}
        dot == IF dots = {} THEN Len(body) + 1 ELSE CHOOSE i \in dots : TRUE
        whole == SubSeq(body, 1, dot - 1)
        frac == SubSeq(body, dot + 1, Len(body))
        ok == /\ Cardinality(dots) <= 1
              /\ AllDigits(whole) /\ AllDigits(frac)
              /\ Len(whole) + Len(frac) > 0
              /\ Len(frac) <= 2
        cents == 100 * DigitsValue(whole)
                 + (IF Len(frac) = 1 THEN 10 * DigitsValue(frac) ELSE DigitsValue(frac))
    IN IF ok
       THEN [ok |-> TRUE, n |-> IF signed /\ s[1] = "-" THEN 0 - cents ELSE cents]
       ELSE [ok |-> FALSE, n |-> 0]

NumericCell(src, s) ==
    LET r == ToNumeric(s) IN IF r.ok THEN NumCell(src, r.n, 100) ELSE NaNCell(src)

MonthNames ==
    <<"Jan", "Feb", "Mar", "Apr", "May", "Jun", "Jul", "Aug", "Sep", "Oct",
      "Nov", "Dec">>
\* The longest each month gets (February in a leap year).
DaysIn == <<31, 29, 31, 30, 31, 30, 31, 31, 30, 31, 30, 31>>
DayOf == ("1" :> 1) @@ ("21" :> 21) @@ ("30" :> 30)
Years == {"2008", "2010", "2015", "2020"}
MonthOf(name) ==
    IF \E m \in 1..12 : MonthNames[m] = name
    THEN CHOOSE m \in 1..12 : MonthNames[m] = name
    ELSE 0

\* pd.to_datetime(text, errors="coerce", format="mixed") then .dt.month, for
\* the forms "Mon D, YYYY" and "Mon YYYY" of the export: the month 1..12, or 0
\* for NaT.
ParseMonth(s) ==
    LET m == IF s # <<>> THEN MonthOf(s[1]) ELSE 0
    IN IF m = 0 THEN 0
       ELSE IF /\ Len(s) = 6 /\ s[2] = " " /\ s[4] = "," /\ s[5] = " "
               /\ s[3] \in DOMAIN DayOf /\ s[6] \in Years
            THEN (IF DayOf[s[3]] <= DaysIn[m] THEN m ELSE 0)
       ELSE IF Len(s) = 3 /\ s[2] = " " /\ s[3] \in Years THEN m
       ELSE 0

month_to_season_DecemberFall(month) ==
    IF month \in {1, 2} THEN "Winter"
    ELSE IF month \in {3, 4, 5} THEN "Spring"
    ELSE IF month \in {6, 7, 8} THEN "Summer"
    ELSE "Fall"

month_to_season(month) ==
    IF month \in {12, 1, 2} THEN "Winter"
    ELSE IF month \in {3, 4, 5} THEN "Spring"
    ELSE IF month \in {6, 7, 8} THEN "Summer"
    ELSE "Fall"

\* ---- files and frames
\* A CSV file or a DataFrame: its columns and its rows, each row a function
\* from the columns to cells.
NoFile == [exists |-> FALSE, cols |-> {}, rows |-> <<>>]
Frame(cols, rows) == [exists |-> TRUE, cols |-> cols, rows |-> rows]

\* str.strip() of a column name; of the names of the model only "AppID "
\* carries whitespace.
StripName(c) == IF c = "AppID " THEN "AppID" ELSE c

\* df.columns = df.columns.astype(str).str.strip()
StripColumns(df) ==
    Frame({StripName(c) : c \in df.cols},
          [i \in 1..Len(df.rows) |->
              [c \in {StripName(x) : x \in df.cols} |->
                  df.rows[i][CHOOSE x \in df.cols : StripName(x) = c]]])

\* df[col] = df[from], for every row.
Assign(df, col, from) ==
    Frame(df.cols \cup {col},
          [i \in 1..Len(df.rows) |->
              [c \in df.cols \cup {col} |->
                  IF c = col THEN df.rows[i][from] ELSE df.rows[i][c]]])

\* df[needed].copy()
Project(df, needed) ==
    Frame(needed, [i \in 1..Len(df.rows) |-> [c \in needed |-> df.rows[i][c]]])

\* The raw column each column's values were read from, right after the
\* remapping step (every row alike; nothing to tell for a frame of no rows).
Provenance(df) ==
    IF df.rows = <<>> THEN <<>> ELSE [c \in df.cols |-> df.rows[1][c].src]

\* The semantic-shift fix of clean_games.main.
RemapGames(df) ==
    IF {"AppID", "Name", "Release date"} \subseteq df.cols
    THEN Frame(df.cols \cup {"Estimated owners"},
               [i \in 1..Len(df.rows) |->
                   [c \in df.cols \cup {"Estimated owners"} |->
                       IF c = "Name" THEN df.rows[i]["AppID"]
                       ELSE IF c = "Release date" THEN df.rows[i]["Name"]
                       ELSE IF c = "Estimated owners" THEN df.rows[i]["Release date"]
                       ELSE df.rows[i][c]]])
    ELSE df

\* The price cleaning of clean_games.main, up to to_numeric.
GamesPriceText(s) ==
    Strip(ReplaceAll(ReplaceAll(ReplaceAll(s, S_Dollar, <<>>), S_FreeToPlay, S_Zero),
                     S_Free, S_Zero))

\* The row of the cleaned frame for a row of the projected frame.
GamesRow(r, cols) ==
    LET date == Strip(CollapseWs(AsStr(r["Release date"])))
        month == ParseMonth(date)
    IN [c \in cols \cup {"ReleaseMonth", "ReleaseSeason"} |->
          IF c = "Name" THEN StrCell(r[c].src, Strip(AsStr(r[c])))
          ELSE IF c = "Release date" THEN StrCell(r[c].src, date)
          ELSE IF c = "Price" THEN NumericCell(r[c].src, GamesPriceText(AsStr(r[c])))
          ELSE IF c = "Estimated owners" THEN StrCell(r[c].src, Strip(AsStr(r[c])))
          ELSE IF c = "ReleaseMonth"
               THEN (IF month = 0 THEN NaNCell("") ELSE NumCell("", month, 1))
          ELSE (IF month = 0 THEN NaNCell("") ELSE StrCell("", <<month_to_season(month)>>))]

\* Series.dropna on the named columns of a row.
HasAll(r, subset) == \A c \in subset : r[c].t # "nan"

\* The outcome of a program: how it ended, the exception and the columns its
\* message names, the provenance after the remapping step, the columns the
\* frame has where the required ones are looked up, and the frame written.
Outcome(status, exc, named, prov, cols, out) ==
    [status |-> status, exc |-> exc, named |-> named, prov |-> prov,
     cols |-> cols, out |-> out]

\* clean_games.main on the raw file f.
CleanGamesRun(f) ==
    IF ~f.exists THEN Outcome("error", "FileNotFoundError", {}, <<>>, {}, NoFile)
    ELSE
      LET df == RemapGames(StripColumns(f))
          needed == {"Name", "Release date", "Price"}
                      \cup ({"Estimated owners"} \cap df.cols)
          missing == needed \ df.cols
          cleaned == [i \in 1..Len(df.rows) |-> GamesRow(Project(df, needed).rows[i], needed)]
          keep(r) == HasAll(r, {"Name", "Price"})
      IN IF missing # {}
         THEN Outcome("error", "ValueError", missing, Provenance(df), df.cols, NoFile)
         ELSE Outcome("ok", "", {}, Provenance(df), df.cols,
                      Frame(needed \cup {"ReleaseMonth", "ReleaseSeason"},
                            SelectSeq(cleaned, keep)))

\* df.rename(columns={old: new})
Rename(df, old, new) ==
    Frame((df.cols \ {old}) \cup {new},
          [i \in 1..Len(df.rows) |->
              [c \in (df.cols \ {old}) \cup {new} |->
                  IF c = new THEN df.rows[i][old] ELSE df.rows[i][c]]])

\* The first of the alternative names that is a column, "" when none is.
FirstPresent(alts, cols) ==
    IF \E i \in 1..Len(alts) : alts[i] \in cols
    THEN alts[CHOOSE i \in 1..Len(alts) :
                /\ alts[i] \in cols
                /\ \A j \in 1..(i - 1) : alts[j] \notin cols]
    ELSE ""

\* The rename_map of clean_reviews.main, applied.
RenameReviews(df) ==
    LET pos == FirstPresent(<<"positive", "Positive reviews", "Positive Reviews">>, df.cols)
        neg == FirstPresent(<<"negative", "Negative reviews", "Negative Reviews">>, df.cols)
        d1 == IF "Positive" \notin df.cols /\ pos # "" THEN Rename(df, pos, "Positive") ELSE df
    IN IF "Negative" \notin df.cols /\ neg # "" THEN Rename(d1, neg, "Negative") ELSE d1

\* The price cleaning of clean_reviews.main, up to to_numeric.
ReviewsPriceText(s) ==
    Strip(ReplaceAll(ReplaceAll(ReplaceAll(s, S_FreeToPlay, S_Zero), S_Free, S_Zero),
                     S_Dollar, <<>>))

\* pd.to_numeric(series, errors="coerce") of a raw cell.
CountCell(cell) == IF cell.t = "nan" THEN NaNCell(cell.src) ELSE NumericCell(cell.src, cell.s)

\* The row of the cleaned reviews frame before its rows are dropped.
ReviewsRow(r, cols) ==
    [c \in cols |->
        IF c = "Price" THEN NumericCell(r[c].src, ReviewsPriceText(AsStr(r[c])))
        ELSE IF c \in {"Positive", "Negative"} THEN CountCell(r[c])
        ELSE IF c \in {"Genres", "Publishers"} THEN StrCell(r[c].src, Strip(AsStr(r[c])))
        ELSE r[c]]

\* df["PositiveRatio"] = df["Positive"] / (df["Positive"] + df["Negative"])
WithRatio(r, cols) ==
    [c \in cols \cup {"PositiveRatio"} |->
        IF c = "PositiveRatio"
        THEN NumCell("", r["Positive"].n, r["Positive"].n + r["Negative"].n)
        ELSE r[c]]

\* clean_reviews.main on the raw file f.
CleanReviewsRun(f) ==
    IF ~f.exists THEN Outcome("error", "FileNotFoundError", {}, <<>>, {}, NoFile)
    ELSE
      LET remapped == StripColumns(IF "AppID" \in f.cols THEN Assign(f, "Name", "AppID") ELSE f)
          df == RenameReviews(remapped)
          needed == {"Name", "Price", "Genres", "Publishers", "Positive", "Negative"}
          missing == needed \ df.cols
          coerced == [i \in 1..Len(df.rows) |-> ReviewsRow(Project(df, needed).rows[i], needed)]
          keep(r) == /\ HasAll(r, {"Price", "Positive", "Negative"})
                     /\ r["Positive"].n + r["Negative"].n > 0
          kept == SelectSeq(coerced, keep)
      IN IF missing # {}
         THEN Outcome("error", "ValueError", missing, Provenance(remapped), df.cols, NoFile)
         ELSE Outcome("ok", "", {}, Provenance(remapped), df.cols,
                      Frame(needed \cup {"PositiveRatio"},
                            [i \in 1..Len(kept) |-> WithRatio(kept[i], needed)]))

\* build_q2_marts.main up to its required-columns check, on the cleaned file f.
BuildQ2Run(f) ==
    IF ~f.exists THEN Outcome("error", "FileNotFoundError", {}, <<>>, {}, NoFile)
    ELSE IF "Price" \notin f.cols
         THEN Outcome("error", "KeyError", {"Price"}, <<>>, f.cols, NoFile)
    ELSE IF "ReviewRatio" \notin f.cols
         THEN Outcome("error", "KeyError", {"ReviewRatio"}, <<>>, f.cols, NoFile)
    ELSE
      LET cols == f.cols \cup {"TotalReviews"}
          missing == {"Name", "Price", "ReviewRatio", "Genres"} \ cols
      IN IF missing # {}
         THEN Outcome("error", "ValueError", missing, <<>>, cols, NoFile)
         ELSE Outcome("ok", "", {}, <<>>, cols, NoFile)

OUT_FEATURES == "q2_reviews_features.csv"
OUT_GENRE == "q2_genre_review_ratio.csv"

\* ------------------------------------------------- the marts and the facade
\* Numbers read from the cleaned file are kept in hundredths. A measure is
\* null (NaN/NA) or a number.
Null == [ok |-> FALSE, n |-> 0]
Some(x) == [ok |-> TRUE, n |-> x]

\* The element of a set of one element: Only({F(x) : x \in {e}}) is F(e) with
\* e computed once, as an assignment to a local of the code computes it.
Only(S) == CHOOSE x \in S : TRUE

\* pd.to_numeric(column, errors="coerce") of a cell of the cleaned file, which
\* read_csv(keep_default_na=False) hands over as text: a number the cleaner
\* wrote comes back as that number, a NaN it wrote comes back as "" and is
\* coerced to NaN.
ReadNum(cell) ==
    IF cell.t = "num" THEN Some((cell.n * 100) \div cell.d)
    ELSE IF cell.t = "nan" THEN Null
    ELSE Only({IF r.ok THEN Some(r.n) ELSE Null : r \in {ToNumeric(cell.s)}})

\* The text of a cell as read_csv(keep_default_na=False) returns it: a NaN the
\* cleaner wrote is the empty string.
ReadStr(cell) == IF cell.t = "str" THEN cell.s ELSE <<>>

\* round(a / b) for b > 0, half to even as Python and numpy round.
RoundDiv(a, b) ==
    Only({LET q == x[1] \div x[2]
              r == x[1] % x[2]
          IN IF 2 * r < x[2] THEN q
             ELSE IF 2 * r > x[2] THEN q + 1
             ELSE IF q % 2 = 0 THEN q ELSE q + 1 : x \in {<<a, b>>}})

\* A sequence given by a rule, as the tuple of its elements.
AsTuple(s) == s \o <<>>

\* df[c] = pd.to_numeric(df[c], errors="coerce") for the columns cols of the
\* rows of a frame read from the cleaned file.
ToNumericCols(rows, cols) ==
    Only({AsTuple([i \in 1..Len(t) |->
            [c \in DOMAIN t[i] |->
                IF c \in cols
                THEN Only({IF v.ok THEN NumCell(t[i][c].src, v.n, 100)
                           ELSE NaNCell(t[i][c].src) : v \in {ReadNum(t[i][c])}})
                ELSE t[i][c]] @@ <<>>]) : t \in {rows}})

RECURSIVE SumSeq(_)
SumSeq(s) ==
    Only({IF t = <<>> THEN 0 ELSE Head(t) + SumSeq(Tail(t)) : t \in {s}})

\* sort_values on the field key, ascending; rows with equal keys keep their
\* order (tables of the model are shorter than the 16 rows below which the
\* sort of numpy is an insertion sort).
SortByKey(rows) ==
    Only({LET n == Len(s)
              pos(i) == 1 + Cardinality({j \in 1..n :
                              \/ s[j].key < s[i].key
                              \/ s[j].key = s[i].key /\ j < i})
          IN AsTuple([p \in 1..n |-> s[CHOOSE i \in 1..n : pos(i) = p]])
          : s \in {AsTuple(rows)}})

SortNums(s) ==
    Only({AsTuple([i \in 1..Len(sorted) |-> sorted[i].key])
          : sorted \in {SortByKey([i \in 1..Len(s) |-> [key |-> s[i]]])}})

\* Series.mean() and Series.median() of a non-empty series, as fractions n/d.
Mean(s) == Only({[n |-> SumSeq(t), d |-> Len(t)] : t \in {s}})
Median(s) ==
    Only({LET m == Len(v) \div 2
          IN IF Len(v) % 2 = 1 THEN [n |-> v[m + 1], d |-> 1]
             ELSE [n |-> v[m] + v[m + 1], d |-> 2] : v \in {SortNums(s)}})

\* .round(2), .round(3), .round(4) and .round(1) of a fraction of hundredths:
\* the value in hundredths, thousandths, ten-thousandths and tenths.
Round2(q) == Only({RoundDiv(x.n, x.d) : x \in {q}})
Round3(q) == Only({RoundDiv(10 * x.n, x.d) : x \in {q}})
Round4(q) == Only({RoundDiv(100 * x.n, x.d) : x \in {q}})
Round1(q) == Only({RoundDiv(x.n, 10 * x.d) : x \in {q}})

\* The words of the model in the order Python compares strings.
LexOrder ==
    <<"Action", "Fall", "Genres", "Indie", "RPG", "Spring", "Summer", "UNKNOWN",
      "Unknown", "Winter", "unknown">>
\* The rank of a string of at most one word; the empty string comes first.
LexRank(s) ==
    IF s = <<>> THEN 0
    ELSE IF \E i \in 1..Len(LexOrder) : LexOrder[i] = s[1]
         THEN CHOOSE i \in 1..Len(LexOrder) : LexOrder[i] = s[1]
    ELSE Len(LexOrder) + 1

\* str.lower() of a word.
LowerPiece(w) ==
    IF w \in {"Unknown", "UNKNOWN"} THEN "unknown"
    ELSE IF w = "Action" THEN "action"
    ELSE IF w = "Indie" THEN "indie"
    ELSE IF w = "RPG" THEN "rpg"
    ELSE IF w = "True" THEN "true"
    ELSE IF w = "False" THEN "false"
    ELSE w
Lower(s) == Only({AsTuple([i \in 1..Len(t) |-> LowerPiece(t[i])]) : t \in {s}})

\* str.split(","): the pieces between the commas, empty ones included.
RECURSIVE Split(_)
Split(s) ==
    Only({IF \E i \in 1..Len(t) : t[i] = ","
          THEN Only({<<SubSeq(t, 1, i - 1)>> \o Split(SubSeq(t, i + 1, Len(t)))
                     : i \in {c \in 1..Len(t) :
                                t[c] = "," /\ \A j \in 1..(c - 1) : t[j] # ","}})
          ELSE <<t>> : t \in {s}})

\* assign(Genre=Genres.str.split(",")).explode("Genre") and the strip: one row
\* per token, in the order of the rows and of the tokens.
RECURSIVE ExplodeRows(_)
ExplodeRows(rows) ==
    Only({IF t = <<>> THEN <<>>
          ELSE Only({AsTuple([j \in 1..Len(toks) |->
                                [row |-> Head(t), Genre |-> Strip(toks[j])]])
                     : toks \in {Split(ReadStr(Head(t)["Genres"]))}})
               \o ExplodeRows(Tail(t)) : t \in {rows}})

explode_genres_KeepsUnknown(rows) ==
    LET keep(x) == x.Genre # <<>>
    IN SelectSeq(ExplodeRows(rows), keep)

\* explode_genres of build_q2_marts and build_q3_marts.
explode_genres(rows) ==
    LET keep(x) == x.Genre # <<>> /\ Lower(x.Genre) # <<"unknown">>
    IN SelectSeq(ExplodeRows(rows), keep)

\* The split of the facade's endpoints: blanks dropped, nothing else.
FacadeExplode(rows) ==
    LET keep(x) == x.Genre # <<>>
    IN SelectSeq(ExplodeRows(rows), keep)

\* groupby(col): the keys present, in sorted order.
GroupKeys(keys) ==
    Only({LET pos(key) == 1 + Cardinality({o \in ks : LexRank(o) < LexRank(key)})
          IN AsTuple([p \in 1..Cardinality(ks) |-> CHOOSE key \in ks : pos(key) = p])
          : ks \in {Only({{t[i] : i \in 1..Len(t)} : t \in {keys}})}})

\* ---- Q1: seasonal pricing
\* groupby(key)["Price"].agg(count, mean, median, min, max) of one group, the
\* four price measures rounded to 2.
PriceStats(prices) ==
    Only({[count |-> Len(p),
           avg_price |-> Round2(Mean(p)),
           median_price |-> Round2(Median(p)),
           min_price |-> v[1],
           max_price |-> v[Len(v)]] : <<p, v>> \in {<<prices, SortNums(prices)>>}})

season_order == <<"Winter", "Spring", "Summer", "Fall">>

\* season_order.index(s) if s in season_order else 999
SeasonIndex(s) ==
    IF \E i \in 1..4 : <<season_order[i]>> = s
    THEN (CHOOSE i \in 1..4 : <<season_order[i]>> = s) - 1
    ELSE 999

\* The prices of the rows, in row order.
Prices(rows) == Only({AsTuple([i \in 1..Len(t) |-> ReadNum(t[i]["Price"]).n]) : t \in {rows}})

\* The per-season table as groupby leaves it: one row per season present, in
\* sorted order of the season names; the facade strips the names first.
SeasonGroups(rows, stripped) ==
    LET season(r) == IF stripped THEN Strip(ReadStr(r["ReleaseSeason"]))
                     ELSE ReadStr(r["ReleaseSeason"])
    IN Only({Only({AsTuple([g \in 1..Len(keys) |->
                      LET in(r) == season(r) = keys[g]
                      IN [ReleaseSeason |-> keys[g],
                          stats |-> PriceStats(Prices(SelectSeq(t, in)))]])
                   : keys \in {GroupKeys(AsTuple([i \in 1..Len(t) |-> season(t[i])]))}})
             : t \in {rows}})

SeasonSort_Unsorted(groups) == AsTuple(groups)

\* sort_values("__order") of the per-season table.
SeasonSort(groups) ==
    Only({AsTuple([i \in 1..Len(sorted) |-> sorted[i].val])
          : sorted \in {Only({SortByKey([i \in 1..Len(t) |->
                                   [key |-> SeasonIndex(t[i].ReleaseSeason), val |-> t[i]]])
                              : t \in {AsTuple(groups)}})}})

\* groupby("ReleaseMonth") and sort_values("ReleaseMonth"): one row per month
\* present, ascending.
MonthGroups(rows) ==
    LET month(r) == ReadNum(r["ReleaseMonth"]).n
    IN Only({Only({AsTuple([p \in 1..Cardinality(ms) |->
                      Only({LET in(r) == month(r) = key
                            IN [ReleaseMonth |-> key,
                                stats |-> PriceStats(Prices(SelectSeq(t, in)))]
                            : key \in {m \in ms : Cardinality({o \in ms : o < m}) = p - 1}})])
                   : ms \in {{month(t[i]) : i \in 1..Len(t)}}})
             : t \in {rows}})

\* month_name(m)
month_name(m) == IF m \in 1..12 THEN MonthNames[m] ELSE "other"

\* build_q1_marts.main(paid_only) on the cleaned file f: the two tables, or
\* the exception.
BuildQ1Run(f, paid_only) ==
    IF ~f.exists THEN [status |-> "error", exc |-> "FileNotFoundError", named |-> {}]
    ELSE IF "Price" \notin f.cols
         THEN [status |-> "error", exc |-> "KeyError", named |-> {"Price"}]
    ELSE IF "ReleaseMonth" \notin f.cols
         THEN [status |-> "error", exc |-> "KeyError", named |-> {"ReleaseMonth"}]
    ELSE IF "ReleaseSeason" \notin f.cols
         THEN [status |-> "error", exc |-> "KeyError", named |-> {"ReleaseSeason"}]
    ELSE
      LET keep(r) == /\ r["Price"].t = "num"
                     /\ ReadNum(r["Price"]).n >= 0
                     /\ r["ReleaseMonth"].t = "num"
                     /\ (paid_only => ReadNum(r["Price"]).n > 0)
      IN Only({[status |-> "ok", exc |-> "", named |-> {},
                season_stats |-> SeasonSort(SeasonGroups(df, FALSE)),
                month_stats |->
                    Only({AsTuple([i \in 1..Len(months) |->
                              [ReleaseMonth |-> months[i].ReleaseMonth \div 100,
                               MonthName |-> month_name(months[i].ReleaseMonth \div 100),
                               stats |-> months[i].stats]])
                          : months \in {MonthGroups(df)}})]
               : df \in {SelectSeq(ToNumericCols(f.rows, {"Price", "ReleaseMonth"}), keep)}})

\* The facade: load_csv and the required-columns test of an endpoint.
Http500(detail) == [status |-> 500, detail |-> detail, body |-> <<>>]
Http200(body) == [status |-> 200, detail |-> "", body |-> body]
Need(f, required) ==
    IF ~f.exists THEN "Missing file"
    ELSE IF ~(required \subseteq f.cols) THEN "Need columns"
    ELSE ""

\* GET /analytics/pricing/by-season
pricing_by_season(f) ==
    IF Need(f, {"Price", "ReleaseSeason"}) # "" THEN Http500(Need(f, {"Price", "ReleaseSeason"}))
    ELSE
      LET season(r) == Strip(ReadStr(r["ReleaseSeason"]))
          keep(r) == r["Price"].t = "num" /\ SeasonIndex(season(r)) # 999
      IN Http200(SeasonSort(SeasonGroups(
             SelectSeq(ToNumericCols(f.rows, {"Price"}), keep), TRUE)))

\* GET /analytics/pricing/by-month
pricing_by_month(f) ==
    IF Need(f, {"Price", "ReleaseMonth"}) # "" THEN Http500(Need(f, {"Price", "ReleaseMonth"}))
    ELSE
      LET keep(r) == r["Price"].t = "num" /\ r["ReleaseMonth"].t = "num"
      IN Http200(MonthGroups(
             SelectSeq(ToNumericCols(f.rows, {"Price", "ReleaseMonth"}), keep)))

\* ---- Q2: reviews by genre
\* The members of a genre in an exploded frame, in row order.
OfGenre(exploded, genre) ==
    LET in(x) == x.Genre = genre
    IN Only({AsTuple([i \in 1..Len(members) |-> members[i].row])
             : members \in {SelectSeq(exploded, in)}})

Genres(exploded) ==
    Only({GroupKeys(AsTuple([i \in 1..Len(t) |-> t[i].Genre])) : t \in {exploded}})

\* sort_values("games_count", ascending=False) of a per-genre table.
SortByCountDesc(table) ==
    Only({AsTuple([i \in 1..Len(sorted) |-> sorted[i].val])
          : sorted \in {Only({SortByKey([i \in 1..Len(t) |->
                                   [key |-> 0 - t[i].games_count, val |-> t[i]]])
                              : t \in {AsTuple(table)}})}})

\* main(min_total_reviews=10) of build_q2_marts.
min_total_reviews == 10

RatioOf(r) == ReadNum(r["ReviewRatio"]).n
PriceOf(r) == ReadNum(r["Price"]).n
TotalOf(r) == ReadNum(r["TotalReviews"]).n
Values(rows, col) ==
    Only({AsTuple([i \in 1..Len(t) |-> ReadNum(t[i][col]).n]) : t \in {rows}})

\* build_q2_marts.main from its filters on, for a frame that has the required
\* columns: the features table and the per-genre table.
Q2Tables(f) ==
    LET keep(r) == /\ r["Price"].t = "num"
                   /\ r["ReviewRatio"].t = "num"
                   /\ RatioOf(r) >= 0 /\ RatioOf(r) <= 100
                   /\ "TotalReviews" \in f.cols
                   /\ r["TotalReviews"].t = "num"
                   /\ TotalOf(r) >= 100 * min_total_reviews
    IN Only({
         [q2_features |->
             AsTuple([i \in 1..Len(d) |->
                 [Name |-> ReadStr(d[i]["Name"]),
                  Price |-> PriceOf(d[i]),
                  ReviewRatio |-> 100 * RatioOf(d[i]),
                  TotalReviews |-> TotalOf(d[i]),
                  Genres |-> ReadStr(d[i]["Genres"])]]),
          q2_genre |->
             Only({Only({SortByCountDesc(
                      [j \in 1..Len(keys) |->
                         Only({[Genre |-> keys[j],
                                games_count |-> Len(m),
                                avg_review_ratio |-> Round3(Mean(Values(m, "ReviewRatio"))),
                                median_review_ratio |-> Round3(Median(Values(m, "ReviewRatio"))),
                                avg_price |-> Round2(Mean(Values(m, "Price"))),
                                median_price |-> Round2(Median(Values(m, "Price"))),
                                avg_total_reviews |-> Round1(Mean(Values(m, "TotalReviews")))]
                               : m \in {OfGenre(g, keys[j])}})])
                         : keys \in {Genres(g)}})
                   : g \in {explode_genres(d)}})]
         : d \in {SelectSeq(ToNumericCols(f.rows, {"Price", "ReviewRatio", "TotalReviews"}),
                            keep)}})

\* out.head(max(5, min(int(top_n), 100)))
TopN(table, top_n) ==
    LET lo == IF top_n < 100 THEN top_n ELSE 100
        n == IF lo > 5 THEN lo ELSE 5
    IN Only({SubSeq(t, 1, IF Len(t) < n THEN Len(t) ELSE n) : t \in {table}})

\* GET /analytics/reviews/by-genre
reviews_by_genre(f, top_n) ==
    IF Need(f, {"Genres", "ReviewRatio"}) # "" THEN Http500(Need(f, {"Genres", "ReviewRatio"}))
    ELSE
      LET keep(r) == r["ReviewRatio"].t = "num"
      IN Only({Only({Http200(TopN(SortByCountDesc(
                   [j \in 1..Len(keys) |->
                      Only({[Genre |-> keys[j],
                             games_count |-> Len(m),
                             avg_review_ratio |-> Round3(Mean(Values(m, "ReviewRatio"))),
                             median_review_ratio |-> Round3(Median(Values(m, "ReviewRatio")))]
                            : m \in {OfGenre(g, keys[j])}})]), top_n))
                     : keys \in {Genres(g)}})
               : g \in {FacadeExplode(SelectSeq(ToNumericCols(f.rows, {"ReviewRatio"}), keep))}})

\* GET /analytics/market/avg-price-by-genre
avg_price_by_genre(f, top_n) ==
    IF Need(f, {"Genres", "Price"}) # "" THEN Http500(Need(f, {"Genres", "Price"}))
    ELSE
      LET keep(r) == r["Price"].t = "num"
      IN Only({Only({Http200(TopN(SortByCountDesc(
                   [j \in 1..Len(keys) |->
                      Only({[Genre |-> keys[j],
                             games_count |-> Len(m),
                             avg_price |-> Round2(Mean(Values(m, "Price"))),
                             median_price |-> Round2(Median(Values(m, "Price")))]
                            : m \in {OfGenre(g, keys[j])}})]), top_n))
                     : keys \in {Genres(g)}})
               : g \in {FacadeExplode(SelectSeq(ToNumericCols(f.rows, {"Price"}), keep))}})

\* ---- Q3: market segments
\* normalize_isfree of one cell, and the same test in free_vs_paid (which
\* does not strip).
normalize_isfree(cell) == Lower(Strip(ReadStr(cell))) \in {<<"true">>, <<"1">>, <<"yes">>}
FacadeIsFree(cell) == Lower(ReadStr(cell)) \in {<<"true">>, <<"1">>, <<"yes">>}

\* price_band(price), the price in hundredths.
price_band(p) ==
    IF p <= 0 THEN "Free"
    ELSE IF p < 1000 THEN "Cheap (<$10)"
    ELSE IF p < 3000 THEN "Mid ($10-$29.99)"
    ELSE "Premium ($30+)"

\* round(part / total * 100, 2) if total else 0.0, in hundredths of a percent.
Pct(part, total) == IF total # 0 THEN RoundDiv(part * 10000, total) ELSE 0

\* The free-vs-paid summary of build_q3_marts.main and of free_vs_paid.
FreePaid(total, free_count) ==
    Only({[total_games |-> x[1],
           free_games |-> x[2],
           paid_games |-> x[1] - x[2],
           free_pct |-> Pct(x[2], x[1]),
           paid_pct |-> Pct(x[1] - x[2], x[1])] : x \in {<<total, free_count>>}})

\* GET /analytics/market/free-vs-paid; the body is the one record of the
\* response.
free_vs_paid(f) ==
    IF Need(f, {"IsFree"}) # "" THEN Http500(Need(f, {"IsFree"}))
    ELSE LET free(r) == FacadeIsFree(r["IsFree"])
         IN Http200(<<FreePaid(Len(f.rows), Len(SelectSeq(f.rows, free)))>>)

\* main(min_games_per_genre=50) of build_q3_marts.
min_games_per_genre == 50

LeftJoin_ZeroFill(left, right, nulls) ==
    Only({AsTuple([i \in 1..Len(x[1]) |->
            IF \E j \in 1..Len(x[2]) : x[2][j].Genre = x[1][i].Genre
            THEN x[1][i] @@ x[2][CHOOSE j \in 1..Len(x[2]) : x[2][j].Genre = x[1][i].Genre]
            ELSE x[1][i] @@ [c \in DOMAIN nulls |-> Some(0)]])
          : x \in {<<AsTuple(left), AsTuple(right)>>}})

\* left.merge(right, on="Genre", how="left"): every row of left, with the
\* measures of right where right has the genre and nulls where it has not.
LeftJoin(left, right, nulls) ==
    Only({AsTuple([i \in 1..Len(x[1]) |->
            IF \E j \in 1..Len(x[2]) : x[2][j].Genre = x[1][i].Genre
            THEN x[1][i] @@ x[2][CHOOSE j \in 1..Len(x[2]) : x[2][j].Genre = x[1][i].Genre]
            ELSE x[1][i] @@ nulls])
          : x \in {<<AsTuple(left), AsTuple(right)>>}})

\* The four genre-level stages of build_q3_marts.main over the exploded frame g.
GenreCounts(g) ==
    Only({AsTuple([j \in 1..Len(keys) |->
            [Genre |-> keys[j], games_count |-> Len(OfGenre(g, keys[j]))]])
          : keys \in {Genres(g)}})

GenreFree(g) ==
    LET free(r) == normalize_isfree(r["IsFree"])
    IN Only({AsTuple([j \in 1..Len(keys) |->
               Only({Only({[Genre |-> keys[j],
                            free_games |-> Some(free_games),
                            free_pct |-> Some(RoundDiv(free_games * 10000, Len(m))),
                            paid_pct |-> Some(10000 - RoundDiv(free_games * 10000, Len(m)))]
                           : free_games \in {Len(SelectSeq(m, free))}})
                     : m \in {OfGenre(g, keys[j])}})])
             : keys \in {Genres(g)}})

GenrePrice(g_paid) ==
    Only({AsTuple([j \in 1..Len(keys) |->
            Only({[Genre |-> keys[j],
                   avg_price_paid |-> Some(Round2(Mean(Values(m, "Price")))),
                   median_price_paid |-> Some(Round2(Median(Values(m, "Price"))))]
                  : m \in {OfGenre(g_paid, keys[j])}})])
          : keys \in {Genres(g_paid)}})

Premium(g_paid) ==
    LET is_premium(r) == PriceOf(r) >= 3000
    IN Only({AsTuple([j \in 1..Len(keys) |->
               Only({[Genre |-> keys[j],
                      paid_games |-> Some(Len(m)),
                      pct_premium_paid |->
                          Some(RoundDiv(Len(SelectSeq(m, is_premium)) * 10000, Len(m)))]
                     : m \in {OfGenre(g_paid, keys[j])}})])
             : keys \in {Genres(g_paid)}})

\* The merge of the stages.
Q3Merge(g) ==
    LET paid(x) == PriceOf(x.row) > 0
    IN Only({LeftJoin(
               LeftJoin(
                 LeftJoin(GenreCounts(g), GenreFree(g),
                          [free_games |-> Null, free_pct |-> Null, paid_pct |-> Null]),
                 GenrePrice(g_paid),
                 [avg_price_paid |-> Null, median_price_paid |-> Null]),
               Premium(g_paid),
               [paid_games |-> Null, pct_premium_paid |-> Null])
             : g_paid \in {SelectSeq(g, paid)}})

\* build_q3_marts.main on the cleaned file f: its three tables, with the
\* exploded frame and the merged table it computes on the way, or the
\* exception.
BuildQ3Run(f) ==
    IF ~f.exists THEN [status |-> "error", exc |-> "FileNotFoundError", named |-> {}]
    ELSE IF {"Name", "Price", "IsFree", "Genres"} \ f.cols # {}
         THEN [status |-> "error", exc |-> "ValueError",
               named |-> {"Name", "Price", "IsFree", "Genres"} \ f.cols]
    ELSE
      LET keep(r) == r["Price"].t = "num" /\ PriceOf(r) >= 0
          free(r) == normalize_isfree(r["IsFree"])
          big(x) == x.games_count >= min_games_per_genre
      IN Only({Only({Only({
           [status |-> "ok", exc |-> "", named |-> {},
            q3_rows |->
                AsTuple([i \in 1..Len(df) |->
                    [Name |-> ReadStr(df[i]["Name"]),
                     Price |-> PriceOf(df[i]),
                     IsFree |-> free(df[i]),
                     Genres |-> ReadStr(df[i]["Genres"]),
                     PriceBand |-> price_band(PriceOf(df[i]))]]),
            q3_freepaid |-> FreePaid(Len(df), Len(SelectSeq(df, free))),
            q3_genre |-> SortByCountDesc(SelectSeq(merged, big)),
            g |-> AsTuple([i \in 1..Len(g) |->
                     [Name |-> ReadStr(g[i].row["Name"]), Genre |-> g[i].Genre]]),
            merged |-> merged]
           : merged \in {Q3Merge(g)}})
         : g \in {explode_genres(df)}})
       : df \in {SelectSeq(ToNumericCols(f.rows, {"Price"}), keep)}})

\* ---- the cleaned file on disk, the marts and the responses at rest
\* The lines of the CSV file of a frame: the header, then one line a row.
CsvLines(frame) ==
    <<[k |-> "hdr", cols |-> frame.cols, cells |-> <<>>]>>
    \o [i \in 1..Len(frame.rows) |-> [k |-> "row", cols |-> {}, cells |-> frame.rows[i]]]

FileOf(frame) ==
    [exists |-> frame.exists, lines |-> IF frame.exists THEN CsvLines(frame) ELSE <<>>]

NotBuilt == [status |-> "none"]
NoMarts == [q1 |-> NotBuilt, q2 |-> NotBuilt, q3 |-> NotBuilt]
NoResp == [op |-> "", r |-> Http200(<<>>)]
NoRead == [status |-> "", lines |-> <<>>]

MartParked ==
    /\ mart = NoMarts
    /\ resp = NoResp
    /\ cdisk = FileOf(clean)
    /\ cpc = "idle"
    /\ cseen = NoRead

\* ---- the inputs
Val(t, s) == [t |-> t, s |-> s]
MkCell(src, v) == [src |-> src, t |-> v.t, s |-> v.s, n |-> 0, d |-> 1]

PricePool ==
    {Val("str", <<"9", ".", "9", "9">>), Val("str", <<"$", "5">>),
     Val("str", S_Free), Val("str", S_FreeToPlay), Val("str", <<"-", "5">>),
     Val("str", <<"a", "b", "c">>), Val("nan", <<>>)}

DatePool ==
    {Val("str", <<MonthNames[m], " ", "1", ",", " ", "2008">>) : m \in 1..12}
    \cup {Val("str", <<"Feb", " ", "30", ",", " ", "2010">>),
          Val("str", <<"Dec", " ", " ", "21", ",", " ", " ", "2015">>),
          Val("str", <<"May", " ", "2020">>),
          Val("str", <<"0", " ", "-", " ", "20000">>),
          Val("nan", <<>>)}

UsualPrice == Val("str", <<"9", ".", "9", "9">>)
UsualDate == Val("str", <<"Oct", " ", "21", ",", " ", "2008">>)

\* What a column holds when the row does not vary it.
UsualVal(c) ==
    IF c \in {"Positive", "positive"} THEN Val("str", <<"3">>)
    ELSE IF c \in {"Negative", "Negative reviews"} THEN Val("str", <<"1">>)
    ELSE IF c = "ReviewRatio" THEN Val("str", <<"0", ".", "7", "5">>)
    ELSE Val("str", <<c>>)

\* A row over cols with the given price, and the given date in column dateCol.
RawRow(cols, price, date, dateCol) ==
    [c \in cols |->
        MkCell(c, IF c = "Price" THEN price
                  ELSE IF c = dateCol THEN date
                  ELSE UsualVal(c))]

\* The columns a raw export may have.
RawColumns ==
    {"AppID", "AppID ", "Name", "Release date", "Price", "Estimated owners",
     "Genres", "Publishers", "Positive", "Negative", "positive", "Negative reviews"}
\* The export as observed: its Name column holds the release date.
ShiftedColumns ==
    {"AppID", "Name", "Release date", "Price", "Genres", "Publishers",
     "Positive", "Negative"}
\* An export whose columns hold what their names say.
FaceColumns ==
    {"Name", "Release date", "Price", "Estimated owners", "Genres", "Publishers",
     "Positive", "Negative"}
\* The columns a cleaned file found on disk may have.
CleanColumns == {"Name", "Price", "ReviewRatio", "Genres", "TotalReviews", "IsFree"}

RowChoices ==
    {<<p, UsualDate>> : p \in PricePool} \cup {<<UsualPrice, dt>> : dt \in DatePool}

UsualRaw == Frame(ShiftedColumns, <<RawRow(ShiftedColumns, UsualPrice, UsualDate, "Name")>>)

NoOutcome ==
    [prog |-> "", res |-> Outcome("", "", {}, <<>>, {}, NoFile), outBefore |-> NoFile]

\* Any set of columns, one usual row.
InitColumns ==
    /\ \E cols \in SUBSET RawColumns :
         /\ cols # {}
         /\ ~({"AppID", "AppID "} \subseteq cols)
         /\ raw = Frame(cols, <<RawRow(cols, UsualPrice, UsualDate, "Name")>>)
    /\ clean = NoFile

\* The usual columns, any rows.
InitRows ==
    /\ \E n \in 1..MaxRawRows : \E choice \in [1..n -> RowChoices] :
         \/ raw = Frame(ShiftedColumns,
                        [i \in 1..n |-> RawRow(ShiftedColumns, choice[i][1], choice[i][2], "Name")])
         \/ raw = Frame(FaceColumns,
                        [i \in 1..n |-> RawRow(FaceColumns, choice[i][1], choice[i][2], "Release date")])
    /\ clean = NoFile

\* What the review-count columns of the export may hold.
CountPool ==
    {Val("str", <<"0">>), Val("str", <<"1">>), Val("str", <<"3">>), Val("nan", <<>>)}

\* A row over cols with the given review counts.
CountsRow(cols, pos, neg) ==
    [c \in cols |->
        MkCell(c, IF c = "Positive" THEN pos
                  ELSE IF c = "Negative" THEN neg
                  ELSE IF c = "Price" THEN UsualPrice
                  ELSE UsualVal(c))]

\* The columns at face value, any review counts.
InitCounts ==
    /\ \E n \in 1..MaxRawRows : \E choice \in [1..n -> CountPool \X CountPool] :
         raw = Frame(FaceColumns,
                     [i \in 1..n |-> CountsRow(FaceColumns, choice[i][1], choice[i][2])])
    /\ clean = NoFile

\* No raw export, or the usual one beside a cleaned file of an earlier,
\* different cleaner.
InitCleaned ==
    \/ raw = NoFile /\ clean = NoFile
    \/ /\ raw = UsualRaw
       /\ \E cols \in (SUBSET CleanColumns) \ {{}} :
            clean = Frame(cols, <<RawRow(cols, UsualPrice, UsualDate, "Release date")>>)

CleanerInit ==
    /\ InitColumns \/ InitRows \/ InitCounts \/ InitCleaned
    /\ reviewsClean = NoFile
    /\ marts = {}
    /\ last = NoOutcome
    /\ MartParked

\* The cleaners at rest, for the specifications of the writer.
CleanerParked ==
    /\ raw = NoFile
    /\ clean = NoFile
    /\ reviewsClean = NoFile
    /\ marts = {}
    /\ last = NoOutcome
    /\ MartParked

\* ---- the cleaned files the marts are built from
\* Rows of a cleaned file.
MaxMartRows == 2

MartColumns ==
    {"Name", "Price", "IsFree", "Genres", "ReviewRatio", "TotalReviews",
     "ReleaseMonth", "ReleaseSeason"}

\* A row of the cleaned file, every cell the text of the CSV.
MartRow(name, price, isfree, genres, ratio, total, month, season) ==
    [c \in MartColumns |->
        StrCell(c, IF c = "Name" THEN name
                   ELSE IF c = "Price" THEN price
                   ELSE IF c = "IsFree" THEN isfree
                   ELSE IF c = "Genres" THEN genres
                   ELSE IF c = "ReviewRatio" THEN ratio
                   ELSE IF c = "TotalReviews" THEN total
                   ELSE IF c = "ReleaseMonth" THEN month
                   ELSE season)]

RowA == MartRow(<<"A">>, <<"1", "0">>, <<"False">>, <<"Action", ",", " ", "Indie">>,
                <<"0", ".", "7", "5">>, <<"1", "0", "0">>, <<"3">>, <<"Spring">>)
RowB == MartRow(<<"B">>, <<"0">>, <<"True">>, <<"Indie">>,
                <<"0", ".", "5">>, <<"1", "0", "0">>, <<"3">>, <<"Spring">>)
RowC == MartRow(<<"C">>, <<"3", "5">>, <<"False">>, <<"Action">>,
                <<"1">>, <<"1", "0", "0">>, <<"7">>, <<"Summer">>)
\* A paid game flagged free, of genre Unknown, with few reviews.
RowD == MartRow(<<"D">>, <<"9", ".", "9", "9">>, <<"True">>, <<"Unknown">>,
                <<"0", ".", "5">>, <<"5">>, <<"1", "2">>, <<"Winter">>)
\* A free game flagged paid, its genres padded, blank, unknown and repeated,
\* its ratio null.
RowE == MartRow(<<"E">>, <<"0">>, <<"False">>,
                <<" ", "RPG", " ", ",", ",", " ", "unknown", ",", "RPG">>,
                <<>>, <<"1", "0", "0">>, <<"1", "0">>, <<"Fall">>)
\* A game of no genre and no release month.
RowF == MartRow(<<"F">>, <<"5">>, <<"False">>, <<>>,
                <<"0", ".", "7", "5">>, <<"1", "0", "0">>, <<>>, <<>>)

MartPool == {RowA, RowB, RowC, RowD, RowE, RowF}

\* A cleaned file of up to MaxMartRows rows, in any order; no raw export.
MartInit ==
    /\ \E n \in 0..MaxMartRows : \E rows \in [1..n -> MartPool] :
         clean = Frame(MartColumns, rows)
    /\ raw = NoFile
    /\ reviewsClean = NoFile
    /\ marts = {}
    /\ last = NoOutcome
    /\ MartParked

\* The writer at rest, for the specification of the cleaners.
WriterParked == WriterStart({})

\* ---- the programs
\* clean_games.main: df.to_csv(OUT) when nothing was raised.
CleanGames ==
    LET res == CleanGamesRun(raw)
    IN /\ last' = [prog |-> "clean_games", res |-> res, outBefore |-> clean]
       /\ clean' = IF res.status = "ok" THEN res.out ELSE clean
       /\ cdisk' = FileOf(clean')
       /\ UNCHANGED <<raw, reviewsClean, marts, mart, resp, cpc, cseen>>
       /\ UNCHANGED writerVars

\* clean_reviews.main
CleanReviews ==
    LET res == CleanReviewsRun(raw)
    IN /\ last' = [prog |-> "clean_reviews", res |-> res, outBefore |-> reviewsClean]
       /\ reviewsClean' = IF res.status = "ok" THEN res.out ELSE reviewsClean
       /\ UNCHANGED <<raw, clean, marts>>
       /\ UNCHANGED martVars
       /\ UNCHANGED writerVars

\* build_q2_marts.main: its two marts are written when nothing was raised.
BuildQ2 ==
    \E res \in {BuildQ2Run(clean)} :
       /\ last' = [prog |-> "build_q2_marts", res |-> res, outBefore |-> marts]
       /\ marts' = IF res.status = "ok" THEN marts \cup {OUT_FEATURES, OUT_GENRE} ELSE marts
       /\ mart' = IF res.status = "ok"
                  THEN [mart EXCEPT !.q2 = [status |-> "ok"] @@ Q2Tables(clean)]
                  ELSE mart
       /\ UNCHANGED <<raw, clean, reviewsClean, resp, cdisk, cpc, cseen>>
       /\ UNCHANGED writerVars

\* build_q1_marts.main(paid_only=True): its two marts are written when
\* nothing was raised.
BuildQ1 ==
    \E res \in {BuildQ1Run(clean, TRUE)} :
       /\ mart' = IF res.status = "ok" THEN [mart EXCEPT !.q1 = res] ELSE mart
       /\ UNCHANGED <<raw, clean, reviewsClean, marts, last, resp, cdisk, cpc, cseen>>
       /\ UNCHANGED writerVars

\* build_q3_marts.main(min_games_per_genre=50)
BuildQ3 ==
    \E res \in {BuildQ3Run(clean)} :
       /\ mart' = IF res.status = "ok" THEN [mart EXCEPT !.q3 = res] ELSE mart
       /\ UNCHANGED <<raw, clean, reviewsClean, marts, last, resp, cdisk, cpc, cseen>>
       /\ UNCHANGED writerVars

\* The values of top_n the requests carry: the default.
TopNChoices == {25}

\* A request served by the facade from the cleaned file.
Serve(op, r) ==
    /\ resp' = [op |-> op, r |-> r]
    /\ UNCHANGED <<raw, clean, reviewsClean, marts, last, mart, cdisk, cpc, cseen>>
    /\ UNCHANGED writerVars

PricingBySeason == Serve("pricing_by_season", pricing_by_season(clean))
PricingByMonth == Serve("pricing_by_month", pricing_by_month(clean))
ReviewsByGenre == \E top_n \in TopNChoices : Serve("reviews_by_genre", reviews_by_genre(clean, top_n))
AvgPriceByGenre ==
    \E top_n \in TopNChoices : Serve("avg_price_by_genre", avg_price_by_genre(clean, top_n))
FreeVsPaid == Serve("free_vs_paid", free_vs_paid(clean))

\* ---- clean_games writing the cleaned file, and its readers
\* The cleaned file an earlier run left.
PreviousClean == CleanGamesRun(UsualRaw).out

\* clean_games.main up to the open of df.to_csv(OUT): the file is created or
\* truncated; a run that raised has not touched it.
CleanGamesOpen ==
    LET res == CleanGamesRun(raw)
    IN /\ cpc = "idle"
       /\ IF res.status = "ok"
          THEN /\ cdisk' = [exists |-> TRUE, lines |-> <<>>]
               /\ cpc' = "write"
               /\ UNCHANGED last
          ELSE /\ last' = [prog |-> "clean_games", res |-> res, outBefore |-> clean]
               /\ UNCHANGED <<cdisk, cpc>>
       /\ UNCHANGED <<raw, clean, reviewsClean, marts, mart, resp, cseen>>
       /\ UNCHANGED writerVars

\* to_csv writes the next line; after the last one the file is closed and
\* main returns.
CleanGamesWrite ==
    LET res == CleanGamesRun(raw)
        lines == CsvLines(res.out)
        next == Len(cdisk.lines) + 1
    IN /\ cpc = "write"
       /\ cdisk' = [cdisk EXCEPT !.lines = Append(@, lines[next])]
       /\ IF next = Len(lines)
          THEN /\ cpc' = "idle"
               /\ clean' = res.out
               /\ last' = [prog |-> "clean_games", res |-> res, outBefore |-> clean]
          ELSE UNCHANGED <<cpc, clean, last>>
       /\ UNCHANGED <<raw, reviewsClean, marts, mart, resp, cseen>>
       /\ UNCHANGED writerVars

\* load_csv of the facade, or the read_csv of a mart builder, on the cleaned
\* file as it is on disk now.
LoadCsv ==
    /\ cseen' = IF ~cdisk.exists THEN [status |-> "Missing file", lines |-> <<>>]
                ELSE IF cdisk.lines = <<>>
                     THEN [status |-> "Failed to read CSV", lines |-> <<>>]
                ELSE [status |-> "ok", lines |-> cdisk.lines]
    /\ UNCHANGED <<raw, clean, reviewsClean, marts, last, mart, resp, cdisk, cpc>>
    /\ UNCHANGED writerVars

\* ----------------------------------------------------------- specifications
\* Runs one after another; an external reader may hold a destination.
NextSeq ==
    \/ \E p \in Procs : StartSeq(p)
    \/ \E p \in Procs : OpenTmp(p)
    \/ \E p \in Procs : WriteLine(p)
    \/ \E p \in Procs : Replace(p)
    \/ \E p \in Procs : ReplaceLocked(p)
    \/ \E p \in Procs : FallbackReplace(p)
    \/ \E p \in Procs : NextCall(p)
    \/ \E p \in Procs : Report(p)
    \/ \E p \in Procs : Fail(p)

InitWriter == WriterInit /\ CleanerParked

SpecSeq == InitWriter /\ [][NextSeq]_vars

\* Independent runs against the same destinations, and a reader.
NextConc ==
    \/ \E p \in Procs : StartConc(p)
    \/ \E p \in Procs : OpenTmp(p)
    \/ \E p \in Procs : WriteLine(p)
    \/ \E p \in Procs : Replace(p)
    \/ \E p \in Procs : ReplaceMissing(p)
    \/ \E p \in Procs : NextCall(p)
    \/ \E p \in Procs : Report(p)
    \/ \E out \in OutSet : Read(out)

SpecConc == InitWriter /\ [][NextConc]_vars

\* The cleaners and build_q2_marts, run in any order, any number of times.
NextClean ==
    \/ CleanGames
    \/ CleanReviews
    \/ BuildQ2

InitClean == WriterParked /\ CleanerInit

SpecClean == InitClean /\ [][NextClean]_vars

\* The mart builders and the endpoints of the facade over one cleaned file,
\* in any order.
NextMart ==
    \/ BuildQ1
    \/ BuildQ2
    \/ BuildQ3
    \/ PricingBySeason
    \/ PricingByMonth
    \/ ReviewsByGenre
    \/ AvgPriceByGenre
    \/ FreeVsPaid

InitMart == WriterParked /\ MartInit

SpecMart == InitMart /\ [][NextMart]_vars

\* clean_games rewriting the cleaned file while it is read.
NextIngest ==
    \/ CleanGamesOpen
    \/ CleanGamesWrite
    \/ LoadCsv

InitIngest ==
    /\ WriterParked
    /\ \E n \in 1..MaxRawRows : \E choice \in [1..n -> RowChoices] :
         \/ raw = Frame(ShiftedColumns,
                        [i \in 1..n |-> RawRow(ShiftedColumns, choice[i][1], choice[i][2], "Name")])
         \/ raw = Frame(FaceColumns,
                        [i \in 1..n |-> RawRow(FaceColumns, choice[i][1], choice[i][2], "Release date")])
    /\ clean \in {NoFile, PreviousClean}
    /\ reviewsClean = NoFile
    /\ marts = {}
    /\ last = NoOutcome
    /\ MartParked

SpecIngest == InitIngest /\ [][NextIngest]_vars

\* ------------------------------------------------------------------ claims
\* The run that started last.
Latest(p) == \A q \in Procs : q > p => pc[q] = "idle"
InCall(p) == pc[p] \in {"open", "write", "replace", "fallback", "return"}
\* No call so far met a held destination, and no run failed.
NoConflict ==
    \A q \in Procs : usedFb[q] = {} /\ pc[q] \notin {"fallback", "failed"}

\* C1: during a single run of safe_write_csv, and after it failed or was
\* interrupted at any step, the destination is absent, or holds the complete
\* content it had before the call, or the complete serialisation of the new
\* table; never an empty, truncated or mixed file.
C1_DestinationNeverPartial ==
    \A p \in Procs :
        (Latest(p) /\ (InCall(p) \/ pc[p] = "failed"))
            => Content(CurOut(p)) \in {Absent, before[p], ToCsv(DF(p))}

\* C1, its case: the run ended while the temp file was half written, and the
\* destination still holds what it held before.
C1_Witness ==
    \E p \in Procs :
        /\ pc[p] = "failed"
        /\ Latest(p)
        /\ fs[TmpPath(CurOut(p))] # NoIno
        /\ Len(Content(TmpPath(CurOut(p)))) \in 1..(Len(ToCsv(DF(p))) - 1)
        /\ before[p] # Absent
        /\ Content(CurOut(p)) = before[p]

\* C2: with independent runs writing the same destinations concurrently, what
\* a reader of a destination reads is the complete table of one of the runs
\* or the complete previous content.
C2_ReaderNeverSeesPartial ==
    seen # <<>> =>
        seen[2] \in {ToCsv(Table(v, seen[1])) :
                        v \in {0} \cup {ver[p] : p \in {q \in Procs : pc[q] # "idle"}}}

\* C3: when the replace onto the destination raised PermissionError, the
\* destination keeps its content, the complete new table is in the file
\* <stem>_<stamp><extension> beside it, a warning was printed and no
\* PermissionError reaches the caller.
C3_LockedFallback ==
    \A p \in Procs :
        Latest(p) =>
            /\ err[p] # "PermissionError"
            /\ pc[p] = "fallback" => Content(CurOut(p)) = before[p]
            /\ (pc[p] \in {"return", "done"} /\ k[p] \in usedFb[p]) =>
                 LET out == CurOut(p)
                     named == [stem |-> out.stem \o <<Strftime(stamp[p])>>,
                               suffix |-> out.suffix]
                 IN /\ Content(out) = before[p]
                    /\ named \in AllPaths
                    /\ Content(named) = ToCsv(DF(p))
                    /\ <<p, out, named>> \in warnings

\* C3, its case: a call returned after the replace onto an existing, held
\* destination failed.
C3_Witness ==
    \E p \in Procs :
        /\ pc[p] = "return"
        /\ k[p] \in usedFb[p]
        /\ before[p] = ToCsv(Table(0, CurOut(p)))

\* C4: main receives from safe_write_csv the fallback path whenever one was
\* written, and every path main reports as written holds the table this run
\* produced for it.
C4_CallerLearnsWrittenPaths ==
    \A p \in Procs :
        (Latest(p) /\ pc[p] = "done") =>
            /\ \A w \in warnings : w[1] = p => w[3] \in received[p]
            /\ \A path \in reported[p] : Content(path) = ToCsv(Table(ver[p], path))

\* C5: while no destination is held, writing the same table again leaves the
\* destination byte-identical to what the first write left, and after each
\* call neither the temp file nor any fallback file of the destination exists.
C5_WriteIdempotent ==
    NoConflict =>
        /\ \A p \in Procs :
             (Latest(p) /\ pc[p] \in {"return", "done"}) =>
                /\ fs[TmpPath(CurOut(p))] = NoIno
                /\ \A f \in Fallbacks(CurOut(p)) : fs[f] = NoIno
        /\ \A p, q \in Procs :
             (/\ p < q /\ pc[p] = "done" /\ ver[p] = ver[q]
              /\ Latest(q) /\ pc[q] \in {"return", "done"})
                => Content(CurOut(q)) = after[p][k[q]]

\* C5, its case: two runs wrote the same tables, one after the other.
C5_Witness ==
    /\ NoConflict
    /\ \E p, q \in Procs :
         p < q /\ pc[p] = "done" /\ pc[q] = "done" /\ ver[p] = ver[q]

\* C6: a run that failed has replaced none of its destinations.
C6_FailedRunReplacedNothing ==
    \A p \in Procs : pc[p] = "failed" => replaced[p] = {}

\* The file a program reads, and the file (or mart names) it writes.
InputOf(prog) == IF prog = "build_q2_marts" THEN clean ELSE raw
OutputOf(prog) ==
    IF prog = "clean_games" THEN clean
    ELSE IF prog = "clean_reviews" THEN reviewsClean
    ELSE marts
\* The logical columns a program requires.
RequiredOf(prog) ==
    IF prog = "clean_games" THEN {"Name", "Release date", "Price"}
    ELSE IF prog = "clean_reviews"
         THEN {"Name", "Price", "Genres", "Publishers", "Positive", "Negative"}
    ELSE {"Name", "Price", "ReviewRatio", "Genres"}
Cleaners == {"clean_games", "clean_reviews"}

\* C7: a run whose source file is missing, or whose frame lacks required
\* columns after remapping, ends in an error whose message names exactly the
\* missing columns, and its output is as it was before the run.
C7_MissingColumnsAbort ==
    last.prog # "" =>
        LET missing == RequiredOf(last.prog) \ last.res.cols
        IN /\ ~InputOf(last.prog).exists =>
                /\ last.res.status = "error"
                /\ OutputOf(last.prog) = last.outBefore
           /\ (InputOf(last.prog).exists /\ missing # {}) =>
                /\ last.res.status = "error"
                /\ last.res.named = missing
                /\ OutputOf(last.prog) = last.outBefore

\* C8: every record a cleaner wrote has a Price that is a number and is not
\* negative.
C8_CleanPriceNonNegative ==
    (last.prog \in Cleaners /\ last.res.status = "ok") =>
        \A i \in 1..Len(OutputOf(last.prog).rows) :
            LET price == OutputOf(last.prog).rows[i]["Price"]
            IN price.t = "num" /\ price.n >= 0

\* C9: in every normalizer, when AppID, Name and Release date are all columns
\* of the export, Name holds the AppID values, Release date the Name values
\* and Estimated owners the Release date values; when one of them is absent
\* every column holds the values of the raw column of its own name.
C9_RemapAllOrNothing ==
    (last.prog \in Cleaners /\ raw.exists) =>
        LET prov == last.res.prov
            from(c) == StripName(prov[c])
            shifted == {"AppID", "Name", "Release date"} \subseteq {StripName(c) : c \in raw.cols}
        IN IF shifted
           THEN /\ "Estimated owners" \in DOMAIN prov
                /\ from("Name") = "AppID"
                /\ from("Release date") = "Name"
                /\ from("Estimated owners") = "Release date"
                /\ \A c \in DOMAIN prov \ {"Name", "Release date", "Estimated owners"} :
                     from(c) = c
           ELSE \A c \in DOMAIN prov : from(c) = c

\* C10: in every record clean_games wrote, a null ReleaseMonth goes with a
\* null ReleaseSeason, and otherwise ReleaseMonth is one of 1..12 and
\* ReleaseSeason is the season the fixed table gives for it.
C10_SeasonFollowsMonth ==
    (last.prog = "clean_games" /\ last.res.status = "ok") =>
        \A i \in 1..Len(clean.rows) :
            LET month == clean.rows[i]["ReleaseMonth"]
                season == clean.rows[i]["ReleaseSeason"]
                table == <<"Winter", "Winter", "Spring", "Spring", "Spring", "Summer",
                           "Summer", "Summer", "Fall", "Fall", "Fall", "Winter">>
            IN IF month.t = "nan" THEN season.t = "nan"
               ELSE /\ month.t = "num" /\ month.d = 1 /\ month.n \in 1..12
                    /\ season.t = "str"
                    /\ season.s = <<table[month.n]>>

\* C10, its case: a record released in December was written with Winter.
C10_Witness ==
    /\ last.prog = "clean_games"
    /\ \E i \in 1..Len(clean.rows) :
         /\ clean.rows[i]["ReleaseMonth"].n = 12
         /\ clean.rows[i]["ReleaseSeason"].s = <<"Winter">>

\* C11: every row of the export whose price and review counts parse has a
\* record in the cleaned reviews file, and the ratio of that record is null
\* exactly when Positive = 0 and Negative = 0 and is Positive / (Positive +
\* Negative) otherwise.
C11_ZeroReviewsNullRatio ==
    (/\ last.prog = "clean_reviews" /\ last.res.status = "ok"
     /\ {"Price", "Positive", "Negative"} \subseteq raw.cols) =>
        LET parses(i) ==
                /\ NumericCell("", ReviewsPriceText(AsStr(raw.rows[i]["Price"]))).t = "num"
                /\ CountCell(raw.rows[i]["Positive"]).t = "num"
                /\ CountCell(raw.rows[i]["Negative"]).t = "num"
            out == reviewsClean.rows
        IN /\ Len(out) = Cardinality({i \in 1..Len(raw.rows) : parses(i)})
           /\ \A j \in 1..Len(out) :
                LET pos == out[j]["Positive"].n
                    neg == out[j]["Negative"].n
                    ratio == out[j]["PositiveRatio"]
                IN /\ (pos = 0 /\ neg = 0) <=> ratio.t = "nan"
                   /\ ratio.t = "num" => ratio.n * (pos + neg) = pos * ratio.d

\* The genres a game of the cleaned files is expected in, by its name: the
\* tokens of its Genres cell that are not blank and not "unknown", trimmed, in
\* order, repeated where the cell repeats them.
ExpectedGenres(name) ==
    IF name = <<"A">> THEN << <<"Action">>, <<"Indie">> >>
    ELSE IF name = <<"B">> THEN << <<"Indie">> >>
    ELSE IF name = <<"C">> THEN << <<"Action">> >>
    ELSE IF name = <<"E">> THEN << <<"RPG">>, <<"RPG">> >>
    ELSE << >>

RECURSIVE ExpectedExplode(_)
ExpectedExplode(rows) ==
    IF rows = <<>> THEN <<>>
    ELSE LET name == ReadStr(Head(rows)["Name"])
             genres == ExpectedGenres(name)
         IN [j \in 1..Len(genres) |-> [Name |-> name, Genre |-> genres[j]]]
            \o ExpectedExplode(Tail(rows))

\* C12: the exploded frame has one row per comma-separated token of Genres
\* that is non-empty after trimming and is not "unknown" in any case, the
\* token trimmed, in the order of the rows and of the tokens, repeats kept; a
\* game whose Genres is "Unknown" or empty has no row.  No genre of the
\* per-genre review mart is blank or unknown.
C12_ExplodeGenres ==
    /\ mart.q3.status = "ok" => mart.q3.g = ExpectedExplode(clean.rows)
    /\ mart.q2.status = "ok" =>
         \A j \in 1..Len(mart.q2.q2_genre) :
            /\ mart.q2.q2_genre[j].Genre # <<>>
            /\ Lower(mart.q2.q2_genre[j].Genre) # <<"unknown">>

\* The market-segment marts were built from a file holding the game of
\* padded, blank, unknown and repeated genres and the game of genre Unknown.
C12_Witness ==
    /\ mart.q3.status = "ok"
    /\ \E i \in 1..Len(clean.rows) : clean.rows[i] = RowE
    /\ \E i \in 1..Len(clean.rows) : clean.rows[i] = RowD

\* C13: in the overall summary and the per-genre shares of the market-segment
\* marts and in the response of free_vs_paid, free_pct + paid_pct is within
\* 0.01 of 100 for every group, an empty one included (percentages are held
\* in hundredths of a percent).
C13_SharesSumTo100 ==
    LET sums(x) == x.free_pct + x.paid_pct \in 9999..10001
    IN /\ mart.q3.status = "ok" =>
            /\ sums(mart.q3.q3_freepaid)
            /\ \A j \in 1..Len(mart.q3.merged) :
                  mart.q3.merged[j].free_pct.n + mart.q3.merged[j].paid_pct.n \in 9999..10001
       /\ (resp.op = "free_vs_paid" /\ resp.r.status = 200) => sums(resp.r.body[1])

\* C14: the price-by-genre response counts and averages the paid games only:
\* every genre row carries the number of games of that genre with a price
\* above 0 and the mean of their prices.
C14_PaidOnlyPriceByGenre ==
    (resp.op = "avg_price_by_genre" /\ resp.r.status = 200) =>
        LET paid(r) == ReadNum(r["Price"]).ok /\ PriceOf(r) > 0
            g_paid == explode_genres(SelectSeq(clean.rows, paid))
        IN \A j \in 1..Len(resp.r.body) :
              LET x == resp.r.body[j]
                  m == OfGenre(g_paid, x.Genre)
              IN Lower(x.Genre) # <<"unknown">> =>
                    /\ x.games_count = Len(m)
                    /\ Len(m) > 0
                    /\ x.avg_price = Round2(Mean(Values(m, "Price")))

\* C15: the per-season mart and the by-season response list the seasons in
\* the order Winter, Spring, Summer, Fall, each once; the per-month mart and
\* the by-month response list the months ascending, each once.
C15_SeasonAndMonthOrder ==
    LET seasons(t) == \A i, j \in 1..Len(t) :
            i < j => SeasonIndex(t[i].ReleaseSeason) < SeasonIndex(t[j].ReleaseSeason)
        months(t) == \A i, j \in 1..Len(t) : i < j => t[i].ReleaseMonth < t[j].ReleaseMonth
    IN /\ mart.q1.status = "ok" =>
            seasons(mart.q1.season_stats) /\ months(mart.q1.month_stats)
       /\ (resp.op = "pricing_by_season" /\ resp.r.status = 200) => seasons(resp.r.body)
       /\ (resp.op = "pricing_by_month" /\ resp.r.status = 200) => months(resp.r.body)

\* The per-season mart lists Winter before Spring, against the order of the
\* names.
C15_Witness ==
    /\ mart.q1.status = "ok"
    /\ Len(mart.q1.season_stats) = 2
    /\ mart.q1.season_stats[1].ReleaseSeason = <<"Winter">>
    /\ mart.q1.season_stats[2].ReleaseSeason = <<"Spring">>

\* C16: the response of reviews_by_genre, top_n large enough, is the per-genre
\* review mart: the same genres with the same counts, average and median
\* ratios.
C16_FacadeEqualsGenreMart ==
    (resp.op = "reviews_by_genre" /\ resp.r.status = 200 /\ mart.q2.status = "ok") =>
        resp.r.body =
            [j \in 1..Len(mart.q2.q2_genre) |->
                [Genre |-> mart.q2.q2_genre[j].Genre,
                 games_count |-> mart.q2.q2_genre[j].games_count,
                 avg_review_ratio |-> mart.q2.q2_genre[j].avg_review_ratio,
                 median_review_ratio |-> mart.q2.q2_genre[j].median_review_ratio]]

\* C17: in the market-segment marts every record is free exactly when its
\* price is at most 0, and so the free and the paid games of a genre add up
\* to its games.
C17_IsFreeFollowsPrice ==
    mart.q3.status = "ok" =>
        /\ \A i \in 1..Len(mart.q3.q3_rows) :
              mart.q3.q3_rows[i].IsFree <=> mart.q3.q3_rows[i].Price <= 0
        /\ \A j \in 1..Len(mart.q3.merged) :
              LET x == mart.q3.merged[j]
              IN x.free_games.n + (IF x.paid_games.ok THEN x.paid_games.n ELSE 0)
                     = x.games_count

\* The price of the game of a name in the cleaned file, in hundredths.
PriceByName(name) ==
    PriceOf(clean.rows[CHOOSE i \in 1..Len(clean.rows) : ReadStr(clean.rows[i]["Name"]) = name])

\* C18: the merge of the genre-level stages has one row for every genre of
\* the exploded frame; a genre none of whose games is paid has null, not
\* zero, avg_price_paid, median_price_paid, paid_games and pct_premium_paid;
\* for the others paid_games counts the paid rows and pct_premium_paid is the
\* share, among the paid rows, of those priced 30 or more.
C18_MergeKeepsGenres ==
    mart.q3.status = "ok" =>
        LET g == mart.q3.g
            t == mart.q3.merged
            paidOf(genre) == {i \in 1..Len(g) : g[i].Genre = genre /\ PriceByName(g[i].Name) > 0}
            premiumOf(genre) == {i \in paidOf(genre) : PriceByName(g[i].Name) >= 3000}
        IN /\ {t[j].Genre : j \in 1..Len(t)} = {g[i].Genre : i \in 1..Len(g)}
           /\ \A j, j2 \in 1..Len(t) : t[j].Genre = t[j2].Genre => j = j2
           /\ \A j \in 1..Len(t) :
                IF paidOf(t[j].Genre) = {}
                THEN /\ t[j].avg_price_paid = Null
                     /\ t[j].median_price_paid = Null
                     /\ t[j].paid_games = Null
                     /\ t[j].pct_premium_paid = Null
                ELSE /\ t[j].avg_price_paid.ok
                     /\ t[j].median_price_paid.ok
                     /\ t[j].paid_games = Some(Cardinality(paidOf(t[j].Genre)))
                     /\ t[j].pct_premium_paid =
                          Some(RoundDiv(Cardinality(premiumOf(t[j].Genre)) * 10000,
                                        Cardinality(paidOf(t[j].Genre))))

\* The merge holds a genre with no paid game beside a genre with one.
C18_Witness ==
    /\ mart.q3.status = "ok"
    /\ \E i, j \in 1..Len(mart.q3.merged) :
          /\ ~mart.q3.merged[i].paid_games.ok
          /\ mart.q3.merged[j].paid_games.ok

\* C19: a reader of games_clean.csv that runs while clean_games rewrites it
\* sees a whole file: the one of before the run or the one the run writes,
\* never an empty or a partial one.
C19_ReaderSeesWholeFile ==
    /\ cseen.status # "Failed to read CSV"
    /\ cseen.status = "ok" =>
          \/ cseen.lines = CsvLines(PreviousClean)
          \/ cseen.lines = CsvLines(CleanGamesRun(raw).out)

\* C20: the pipeline composes: the file clean_games writes from a well-formed
\* export has every column build_q2_marts requires, so build_q2_marts run on
\* it raises nothing.
C20_PipelineComposes ==
    (/\ last.prog = "build_q2_marts"
     /\ raw.exists /\ raw.cols \in {ShiftedColumns, FaceColumns}
     /\ clean = CleanGamesRun(raw).out
     /\ clean.exists) =>
        /\ RequiredOf("build_q2_marts") \subseteq clean.cols
        /\ last.res.status = "ok"

====
